---------------------------- MODULE Spec2Model ----------------------------
(***************************************************************************)
(* Model of the xiehouyu competition game: game_logic.py (GameState,       *)
(* PlayerStats, ScoreManager, AnswerGenerator).                            *)
(*                                                                         *)
(* Conventions                                                             *)
(*   - Optional[T] is a sequence of length 0 (None) or 1 (<<value>>).      *)
(*   - A Python str that the code takes apart (an answer) is a sequence of *)
(*     one-character strings; ";" stands for the full-width semicolon and  *)
(*     " " for white space.                                                *)
(*   - last_round_details is a sequence of message records: the f-strings  *)
(*     of the code, kept by their kind and the numbers they interpolate.   *)
(*   - List indices of the code are 0-based; sequences here are 1-based,   *)
(*     and every index that the code stores (correct_index, answer_index)  *)
(*     is stored 0-based as in the code.                                   *)
(***************************************************************************)
EXTENDS Integers, Sequences, FiniteSets, TLC

VARIABLES
    xiehouyu_data,     \* GameState.xiehouyu_data: the riddle pool
    config,            \* GameState.config
    phase,             \* GameState.phase
    current_round,     \* GameState.current_round
    player_stats,      \* GameState.player_stats: side -> PlayerStats
    player_questions,  \* GameState.player_questions: side -> Optional[QuestionData]
    player_answers,    \* GameState.player_answers: side -> Optional[int]
    first_to_answer,   \* GameState.first_to_answer: Optional[PlayerSide]
    round_history,     \* GameState.round_history
    last_call,         \* the latest GameState call: its name, player and outcome
    called_in,         \* the phase in which the latest GameState call was made
    probe,             \* the latest application of a pure function: input and result
    countdown_timer,   \* GameUI.countdown_timer: Optional[ui.timer]
    countdown_seconds, \* GameUI.countdown_seconds
    live_timers,       \* number of ui.timer objects created and not cancelled
    rounds_select,     \* GameHeader.rounds_select.value
    start_button_enabled,     \* GameHeader.start_button is enabled
    next_round_button_shown,  \* GameHeader.global_next_round_button is displayed
    dialog_open,       \* the dialog GameOverDialog.dialog refers to is open
    dialogs_open,      \* number of dialogs built by GameOverDialog.show that are open
    clicks_in_flight,  \* next-round clicks sent by the browser, not yet handled
    ui_event           \* the latest GameUI handler run, and whether it advanced the round

vars == <<xiehouyu_data, config, phase, current_round, player_stats,
          player_questions, player_answers, first_to_answer, round_history,
          last_call, called_in, probe, countdown_timer, countdown_seconds,
          live_timers, rounds_select, start_button_enabled,
          next_round_button_shown, dialog_open, dialogs_open, clicks_in_flight,
          ui_event>>

\* the fields of GameUI and of its widgets
uivars == <<countdown_timer, countdown_seconds, live_timers, rounds_select,
            start_button_enabled, next_round_button_shown, dialog_open,
            dialogs_open, clicks_in_flight, ui_event>>

gamevars == <<phase, current_round, player_stats, player_questions,
              player_answers, first_to_answer, round_history>>

----------------------------------------------------------------------------
(* Bounds of the exploration *)

\* largest total_rounds of the games explored
MaxRounds == 3
\* continue_to_next_round is explored while round_history is shorter than this
MaxHistory == 4

\* the longest streak the scoring functions are applied to
MaxStreak == 9
\* end_game is called directly while a player has fewer streak bonuses than this
MaxBonuses == 2
\* the methods the three calls use are called directly while round_history is
\* shorter than this
MaxDirectHistory == 1
\* next-round clicks the browser may have sent before one is handled
MaxClicksInFlight == 1
\* largest number of rounds chosen in the page's rounds selector
MaxPageRounds == 1
\* the page continues to the next round while round_history is shorter than this
MaxPageHistory == 2

----------------------------------------------------------------------------
(* Enumerations and Optional *)

SETUP == "setup"
PLAYING == "playing"
WAITING == "waiting"
ROUND_FEEDBACK == "round_feedback"
FINISHED == "finished"
GamePhase == {SETUP, PLAYING, WAITING, ROUND_FEEDBACK, FINISHED}

LEFT == "left"
RIGHT == "right"
PlayerSide == {LEFT, RIGHT}

None == <<>>
Some(x) == <<x>>
IsNone(o) == Len(o) = 0
Val(o) == o[1]

Max(a, b) == IF a >= b THEN a ELSE b
Min(a, b) == IF a <= b THEN a ELSE b
Abs(a) == IF a >= 0 THEN a ELSE 0 - a

----------------------------------------------------------------------------
(* GameConfig *)

DefaultStreakBonus == (2 :> 1) @@ (3 :> 1) @@ (4 :> 2) @@ (5 :> 2) @@ (6 :> 3) @@ (7 :> 3)

GameConfig(total, points, bonus, table, maxbonus) ==
    [total_rounds |-> total, points_per_correct |-> points,
     bonus_for_correct |-> bonus, streak_bonus |-> table,
     max_streak_bonus |-> maxbonus]

\* GameConfig.total_rounds default, and the value the rounds selector starts with
DefaultRounds == 12

\* streak length from which max_streak_bonus applies
MaxStreakThreshold == 8

----------------------------------------------------------------------------
(* PlayerStats *)

NewPlayerStats ==
    [score |-> 0, correct_answers |-> 0, wrong_answers |-> 0,
     current_streak |-> 0, max_streak |-> 0, last_round_score |-> 0,
     last_round_details |-> <<>>, priority_answer_count |-> 0,
     streak_bonuses |-> <<>>]

Msg(kind, a, b, c) == [kind |-> kind, a |-> a, b |-> b, c |-> c]

\* mutation: max_streak_bonus applies from a streak of 9
calculate_streak_bonus_above_threshold(streak, cfg) ==
    IF streak > MaxStreakThreshold THEN cfg.max_streak_bonus
    ELSE IF streak \in DOMAIN cfg.streak_bonus THEN cfg.streak_bonus[streak]
    ELSE 0

calculate_streak_bonus(streak, cfg) ==
    IF streak >= MaxStreakThreshold THEN cfg.max_streak_bonus
    ELSE IF streak \in DOMAIN cfg.streak_bonus THEN cfg.streak_bonus[streak]
    ELSE 0

\* mutation: max_streak is not raised with the streak
add_correct_answer_stale_max(stats, points_earned, details, is_priority) ==
    [stats EXCEPT
        !.score = @ + points_earned,
        !.correct_answers = @ + 1,
        !.current_streak = @ + 1,
        !.last_round_score = points_earned,
        !.last_round_details = details,
        !.priority_answer_count = IF is_priority THEN @ + 1 ELSE @]

\* mutation: every correct answer counts as a priority answer
add_correct_answer_always_priority(stats, points_earned, details, is_priority) ==
    [stats EXCEPT
        !.score = @ + points_earned,
        !.correct_answers = @ + 1,
        !.current_streak = @ + 1,
        !.max_streak = Max(@, stats.current_streak + 1),
        !.last_round_score = points_earned,
        !.last_round_details = details,
        !.priority_answer_count = @ + 1]

add_correct_answer(stats, points_earned, details, is_priority) ==
    [stats EXCEPT
        !.score = @ + points_earned,
        !.correct_answers = @ + 1,
        !.current_streak = @ + 1,
        !.max_streak = Max(@, stats.current_streak + 1),
        !.last_round_score = points_earned,
        !.last_round_details = details,
        !.priority_answer_count = IF is_priority THEN @ + 1 ELSE @]

\* mutation: the streak is reset before the bonus is computed
add_wrong_answer_reset_first(stats, cfg) ==
    [stats EXCEPT
        !.last_round_details = <<Msg("wrong", 0, 0, 0)>>,
        !.wrong_answers = @ + 1,
        !.current_streak = 0,
        !.last_round_score = 0]

\* mutation: the streak bonus is added to the score but not recorded
add_wrong_answer_unrecorded_bonus(stats, cfg) ==
    LET streak_bonus ==
            IF stats.current_streak >= 2
            THEN calculate_streak_bonus(stats.current_streak, cfg)
            ELSE 0
    IN  [stats EXCEPT
            !.score = IF streak_bonus > 0 THEN @ + streak_bonus ELSE @,
            !.last_round_details =
                IF streak_bonus > 0
                THEN <<Msg("wrong_streak_end", streak_bonus, stats.current_streak, 0)>>
                ELSE <<Msg("wrong", 0, 0, 0)>>,
            !.wrong_answers = @ + 1,
            !.current_streak = 0,
            !.last_round_score = streak_bonus]

add_wrong_answer(stats, cfg) ==
    LET streak_bonus ==
            IF stats.current_streak >= 2
            THEN calculate_streak_bonus(stats.current_streak, cfg)
            ELSE 0
    IN  [stats EXCEPT
            !.score = IF streak_bonus > 0 THEN @ + streak_bonus ELSE @,
            !.streak_bonuses = IF streak_bonus > 0 THEN Append(@, streak_bonus) ELSE @,
            !.last_round_details =
                IF streak_bonus > 0
                THEN <<Msg("wrong_streak_end", streak_bonus, stats.current_streak, 0)>>
                ELSE <<Msg("wrong", 0, 0, 0)>>,
            !.wrong_answers = @ + 1,
            !.current_streak = 0,
            !.last_round_score = streak_bonus]

\* sum(self.streak_bonuses)
RECURSIVE sum(_)
sum(seq) == IF seq = <<>> THEN 0 ELSE Head(seq) + sum(Tail(seq))

\* PlayerStats.get_score_breakdown: the components it reports
get_score_breakdown(stats, cfg) ==
    [base_score |-> stats.correct_answers * cfg.points_per_correct,
     priority_score |-> stats.priority_answer_count * cfg.bonus_for_correct,
     streak_total |-> sum(stats.streak_bonuses),
     total_score |-> stats.score]

----------------------------------------------------------------------------
(* ScoreManager *)

\* mutation: the score of a correct answer grows with the difficulty level
calculate_score_by_difficulty(cfg, is_correct, difficulty_level, is_first_to_answer) ==
    IF ~is_correct THEN [score |-> 0, details |-> <<Msg("wrong", 0, 0, 0)>>]
    ELSE LET base_score == cfg.points_per_correct * difficulty_level
             bonus_score == cfg.bonus_for_correct
         IN  IF is_first_to_answer
             THEN [score |-> base_score + bonus_score,
                   details |-> <<Msg("correct_priority", base_score, bonus_score,
                                     base_score + bonus_score)>>]
             ELSE [score |-> base_score,
                   details |-> <<Msg("correct", base_score, 0, base_score)>>]

\* mutation: the priority bonus is paid for every correct answer
calculate_score_always_bonus(cfg, is_correct, difficulty_level, is_first_to_answer) ==
    IF ~is_correct THEN [score |-> 0, details |-> <<Msg("wrong", 0, 0, 0)>>]
    ELSE [score |-> cfg.points_per_correct + cfg.bonus_for_correct,
          details |-> <<Msg("correct_priority", cfg.points_per_correct,
                            cfg.bonus_for_correct,
                            cfg.points_per_correct + cfg.bonus_for_correct)>>]

calculate_score_and_details(cfg, is_correct, difficulty_level, is_first_to_answer) ==
    IF ~is_correct THEN [score |-> 0, details |-> <<Msg("wrong", 0, 0, 0)>>]
    ELSE LET base_score == cfg.points_per_correct
             bonus_score == cfg.bonus_for_correct
         IN  IF is_first_to_answer
             THEN [score |-> base_score + bonus_score,
                   details |-> <<Msg("correct_priority", base_score, bonus_score,
                                     base_score + bonus_score)>>]
             ELSE [score |-> base_score,
                   details |-> <<Msg("correct", base_score, 0, base_score)>>]

----------------------------------------------------------------------------
(* AnswerGenerator *)

SEMI == ";"
SPACE == " "

\* positions of a sequence, and the injective maps that pick k of n positions
Injections(k, n) ==
    {f \in [1..k -> 1..n] : \A a, b \in 1..k : a # b => f[a] # f[b]}

\* str.split(SEMI)[0]: the text before the first separator
RECURSIVE BeforeSemi(_)
BeforeSemi(s) ==
    IF s = <<>> \/ Head(s) = SEMI THEN <<>>
    ELSE <<Head(s)>> \o BeforeSemi(Tail(s))

\* str.strip(): leading and trailing white space removed
RECURSIVE LStrip(_)
LStrip(s) == IF s # <<>> /\ Head(s) = SPACE THEN LStrip(Tail(s)) ELSE s

RECURSIVE RStrip(_)
RStrip(s) ==
    IF s # <<>> /\ s[Len(s)] = SPACE THEN RStrip(SubSeq(s, 1, Len(s) - 1)) ELSE s

Strip(s) == RStrip(LStrip(s))

HasSemi(s) == \E i \in 1..Len(s) : s[i] = SEMI

\* the first variant of a multi-answer string (game_logic.py 152-153, 199-200)
FirstVariant(answer) == IF HasSemi(answer) THEN Strip(BeforeSemi(answer)) ELSE answer

answer_pool(data) == [i \in 1..Len(data) |-> data[i].answer]

mask_answer(answer) == answer

\* mutation: the limits 3 and 6 are exclusive
calculate_difficulty_exclusive(answer) ==
    IF Len(answer) < 3 THEN 1
    ELSE IF Len(answer) < 6 THEN 2
    ELSE 3

calculate_difficulty(answer) ==
    IF Len(answer) <= 3 THEN 1
    ELSE IF Len(answer) <= 6 THEN 2
    ELSE 3

\* mutation: no fall back to all other answers when fewer than count are similar
generate_incorrect_answers_no_fallback(data, correct_answer, count) ==
    LET pool == answer_pool(data)
        IsSimilar(answer) ==
            Abs(Len(answer) - Len(correct_answer)) <= 2 /\ answer # correct_answer
        similar_answers == SelectSeq(pool, IsSimilar)
        filtered_answers ==
            [i \in 1..Len(similar_answers) |-> FirstVariant(similar_answers[i])]
        k == Min(count, Len(filtered_answers))
    IN  {[j \in 1..k |-> filtered_answers[f[j]]] :
            f \in Injections(k, Len(filtered_answers))}

\* the lists random.sample(filtered_answers, min(count, len)) can return
generate_incorrect_answers(data, correct_answer, count) ==
    LET pool == answer_pool(data)
        IsSimilar(answer) ==
            Abs(Len(answer) - Len(correct_answer)) <= 2 /\ answer # correct_answer
        IsOther(answer) == answer # correct_answer
        similar == SelectSeq(pool, IsSimilar)
        similar_answers ==
            IF Len(similar) < count THEN SelectSeq(pool, IsOther) ELSE similar
        filtered_answers ==
            [i \in 1..Len(similar_answers) |-> FirstVariant(similar_answers[i])]
        k == Min(count, Len(filtered_answers))
    IN  {[j \in 1..k |-> filtered_answers[f[j]]] :
            f \in Injections(k, Len(filtered_answers))}

\* the QuestionData built from one pick, one sample and one shuffle
QuestionData(selected, incorrect_answers, perm) ==
    LET correct_answer == FirstVariant(selected.answer)
        all_answers == <<correct_answer>> \o incorrect_answers
        masked_answers == [i \in 1..Len(all_answers) |-> mask_answer(all_answers[i])]
        choices == [i \in 1..Len(all_answers) |-> all_answers[perm[i]]]
        masked_choices == [i \in 1..Len(all_answers) |-> masked_answers[perm[i]]]
        first == CHOOSE i \in 1..Len(choices) :
                    /\ choices[i] = correct_answer
                    /\ \A j \in 1..(i - 1) : choices[j] # correct_answer
    IN  [riddle |-> selected.riddle,
         correct_answer |-> correct_answer,
         choices |-> choices,
         masked_choices |-> masked_choices,
         correct_index |-> first - 1,
         difficulty_level |-> calculate_difficulty(correct_answer)]

\* every question generate_question can return on a non-empty pool; on an
\* empty pool random.choice raises (see GenOutcomes)
generate_question(data) ==
    UNION {
        UNION {
            {QuestionData(data[s], inc, perm) :
                perm \in Injections(Len(inc) + 1, Len(inc) + 1)} :
            inc \in generate_incorrect_answers(data, FirstVariant(data[s].answer), 3)} :
        s \in 1..Len(data)}

\* what the two generate_question calls of start_new_round produce: the
\* first call raises on an empty pool, otherwise one question per side
GenOutcomes(data) ==
    IF Len(data) = 0 THEN {[raised |-> TRUE]}
    ELSE {[raised |-> FALSE, left |-> ql, right |-> qr] :
            ql \in generate_question(data), qr \in generate_question(data)}

----------------------------------------------------------------------------
(* GameState: the methods as functions of the object's fields.  A method   *)
(* that can raise returns [state, raised]; submit_answer returns           *)
(* [state, ret].  An exception leaves the fields as they were written up   *)
(* to the raising statement.                                               *)

Self ==
    [phase |-> phase, current_round |-> current_round,
     player_stats |-> player_stats, player_questions |-> player_questions,
     player_answers |-> player_answers, first_to_answer |-> first_to_answer,
     round_history |-> round_history]

\* __init__
NewGameState ==
    [phase |-> SETUP, current_round |-> 0,
     player_stats |-> [p \in PlayerSide |-> NewPlayerStats],
     player_questions |-> [p \in PlayerSide |-> None],
     player_answers |-> [p \in PlayerSide |-> None],
     first_to_answer |-> None,
     round_history |-> <<>>]

\* mutation: the streak is reset once its bonus is banked
end_game_stats_reset(stats, cfg) ==
    LET streak_bonus ==
            IF stats.current_streak >= 2
            THEN calculate_streak_bonus(stats.current_streak, cfg)
            ELSE 0
    IN  IF streak_bonus > 0
        THEN [stats EXCEPT
                !.score = @ + streak_bonus,
                !.streak_bonuses = Append(@, streak_bonus),
                !.current_streak = 0,
                !.last_round_details =
                    @ \o <<Msg("game_over_streak", streak_bonus, stats.current_streak, 0)>>]
        ELSE stats

\* the loop body of end_game for one player's stats
end_game_stats(stats, cfg) ==
    LET streak_bonus ==
            IF stats.current_streak >= 2
            THEN calculate_streak_bonus(stats.current_streak, cfg)
            ELSE 0
    IN  IF streak_bonus > 0
        THEN [stats EXCEPT
                !.score = @ + streak_bonus,
                !.streak_bonuses = Append(@, streak_bonus),
                !.last_round_details =
                    @ \o <<Msg("game_over_streak", streak_bonus, stats.current_streak, 0)>>]
        ELSE stats

end_game(g, cfg) ==
    [g EXCEPT
        !.player_stats = [p \in PlayerSide |-> end_game_stats(g.player_stats[p], cfg)],
        !.phase = FINISHED]

\* mutation: showing the feedback also counts the round
show_round_feedback_next_round(g) ==
    [g EXCEPT !.phase = ROUND_FEEDBACK, !.current_round = @ + 1]

show_round_feedback(g) == [g EXCEPT !.phase = ROUND_FEEDBACK]

\* mutation: first_to_answer of the previous round is kept
start_new_round_keep_first(g, cfg, gen) ==
    IF g.current_round >= cfg.total_rounds
    THEN [state |-> end_game(g, cfg), raised |-> FALSE]
    ELSE IF gen.raised
    THEN [state |-> [g EXCEPT !.current_round = @ + 1], raised |-> TRUE]
    ELSE [state |-> [g EXCEPT
                        !.current_round = @ + 1,
                        !.player_questions =
                            (LEFT :> Some(gen.left)) @@ (RIGHT :> Some(gen.right)),
                        !.player_answers = [p \in PlayerSide |-> None],
                        !.phase = WAITING],
          raised |-> FALSE]

\* mutation: the round is set up but the phase is not moved to WAITING
start_new_round_stay_playing(g, cfg, gen) ==
    IF g.current_round >= cfg.total_rounds
    THEN [state |-> end_game(g, cfg), raised |-> FALSE]
    ELSE IF gen.raised
    THEN [state |-> [g EXCEPT !.current_round = @ + 1], raised |-> TRUE]
    ELSE [state |-> [g EXCEPT
                        !.current_round = @ + 1,
                        !.player_questions =
                            (LEFT :> Some(gen.left)) @@ (RIGHT :> Some(gen.right)),
                        !.player_answers = [p \in PlayerSide |-> None],
                        !.first_to_answer = None],
          raised |-> FALSE]

\* mutation: the answers of the previous round are not cleared
start_new_round_keep_answers(g, cfg, gen) ==
    IF g.current_round >= cfg.total_rounds
    THEN [state |-> end_game(g, cfg), raised |-> FALSE]
    ELSE IF gen.raised
    THEN [state |-> [g EXCEPT !.current_round = @ + 1], raised |-> TRUE]
    ELSE [state |-> [g EXCEPT
                        !.current_round = @ + 1,
                        !.player_questions =
                            (LEFT :> Some(gen.left)) @@ (RIGHT :> Some(gen.right)),
                        !.first_to_answer = None,
                        !.phase = WAITING],
          raised |-> FALSE]

start_new_round(g, cfg, gen) ==
    IF g.current_round >= cfg.total_rounds
    THEN [state |-> end_game(g, cfg), raised |-> FALSE]
    ELSE IF gen.raised
    THEN [state |-> [g EXCEPT !.current_round = @ + 1], raised |-> TRUE]
    ELSE [state |-> [g EXCEPT
                        !.current_round = @ + 1,
                        !.player_questions =
                            (LEFT :> Some(gen.left)) @@ (RIGHT :> Some(gen.right)),
                        !.player_answers = [p \in PlayerSide |-> None],
                        !.first_to_answer = None,
                        !.phase = WAITING],
          raised |-> FALSE]

\* mutation: the statistics of the previous game are kept
start_game_keep_stats(g, cfg, gen) ==
    start_new_round(
        [g EXCEPT
            !.phase = PLAYING,
            !.current_round = 0,
            !.round_history = <<>>],
        cfg, gen)

\* mutation: the records of the previous game are kept
start_game_keep_history(g, cfg, gen) ==
    start_new_round(
        [g EXCEPT
            !.phase = PLAYING,
            !.current_round = 0,
            !.player_stats = [p \in PlayerSide |-> NewPlayerStats]],
        cfg, gen)

start_game(g, cfg, gen) ==
    start_new_round(
        [g EXCEPT
            !.phase = PLAYING,
            !.current_round = 0,
            !.round_history = <<>>,
            !.player_stats = [p \in PlayerSide |-> NewPlayerStats]],
        cfg, gen)

\* mutation: the phase test also lets a finished game through
can_submit_finished(g, player) ==
    ~(g.phase \notin {WAITING, FINISHED} \/ ~IsNone(g.player_answers[player]))

\* mutation: the answer slot is not tested
can_submit_phase_only(g, player) ==
    ~(g.phase # WAITING)

\* the guard of submit_answer: the call is accepted
can_submit(g, player) ==
    ~(g.phase # WAITING \/ ~IsNone(g.player_answers[player]))

\* mutation: every accepted submission overwrites first_to_answer
record_first_to_answer_last(first, player) ==
    Some(player)

\* first_to_answer once player's answer is accepted
record_first_to_answer(first, player) ==
    IF IsNone(first) THEN Some(player) ELSE first

\* mutation: any() in place of all()
all_answered_any(answers) == \E p \in PlayerSide : ~IsNone(answers[p])

\* all(answer is not None for answer in player_answers.values())
all_answered(answers) == \A p \in PlayerSide : ~IsNone(answers[p])

\* mutation: every answer is compared with LEFT's question
is_correct_answer_of_left(questions, player, answer_index) ==
    answer_index = Val(questions[LEFT]).correct_index

\* is_correct in submit_answer: the index is compared with the correct_index
\* of the submitting player's own question
is_correct_answer(questions, player, answer_index) ==
    LET player_question == Val(questions[player])
    IN  answer_index = player_question.correct_index

\* ret is "True" or "False"; "raised" when the player has no question
\* (player_question is None: the attribute access raises after
\* first_to_answer and the answer slot were written)
submit_answer(g, cfg, player, answer_index) ==
    IF ~can_submit(g, player)
    THEN [state |-> g, ret |-> "False"]
    ELSE
        LET is_first_to_answer == IsNone(g.first_to_answer)
            g0 == [g EXCEPT
                    !.first_to_answer = record_first_to_answer(@, player),
                    !.player_answers[player] = Some(answer_index)]
        IN  IF IsNone(g.player_questions[player])
            THEN [state |-> g0, ret |-> "raised"]
            ELSE
                LET player_question == Val(g.player_questions[player])
                    is_correct == is_correct_answer(g.player_questions, player,
                                                    answer_index)
                    sd == calculate_score_and_details(
                              cfg, is_correct, player_question.difficulty_level,
                              is_first_to_answer)
                    stats == g.player_stats[player]
                    g1 == [g0 EXCEPT
                            !.player_stats[player] =
                                IF is_correct
                                THEN add_correct_answer(stats, sd.score, sd.details,
                                                        is_first_to_answer)
                                ELSE add_wrong_answer(stats, cfg)]
                IN  [state |-> IF all_answered(g1.player_answers)
                               THEN show_round_feedback(g1)
                               ELSE g1,
                     ret |-> "True"]

\* mutation: the record of the round is put in front of the history
end_round_prepend(g) ==
    LET round_data ==
            [round |-> g.current_round,
             questions |-> g.player_questions,
             answers |-> g.player_answers,
             scores |-> [p \in PlayerSide |-> g.player_stats[p].score]]
    IN  [g EXCEPT
            !.round_history = <<round_data>> \o @,
            !.phase = PLAYING]

\* mutation: the record of the round replaces the history
end_round_replace(g) ==
    LET round_data ==
            [round |-> g.current_round,
             questions |-> g.player_questions,
             answers |-> g.player_answers,
             scores |-> [p \in PlayerSide |-> g.player_stats[p].score]]
    IN  [g EXCEPT
            !.round_history = <<round_data>>,
            !.phase = PLAYING]

end_round(g) ==
    LET round_data ==
            [round |-> g.current_round,
             questions |-> g.player_questions,
             answers |-> g.player_answers,
             scores |-> [p \in PlayerSide |-> g.player_stats[p].score]]
    IN  [g EXCEPT
            !.round_history = Append(@, round_data),
            !.phase = PLAYING]

\* mutation: the game ends one round early
continue_to_next_round_early(g, cfg, gen) ==
    LET g1 == end_round(g)
    IN  IF g1.current_round + 1 >= cfg.total_rounds
        THEN [state |-> end_game(g1, cfg), raised |-> FALSE]
        ELSE start_new_round(g1, cfg, gen)

\* mutation: the next round is started without any test of the round count
continue_to_next_round_unchecked(g, cfg, gen) ==
    LET g1 == end_round(g)
    IN  IF gen.raised
        THEN [state |-> [g1 EXCEPT !.current_round = @ + 1], raised |-> TRUE]
        ELSE [state |-> [g1 EXCEPT
                            !.current_round = @ + 1,
                            !.player_questions =
                                (LEFT :> Some(gen.left)) @@ (RIGHT :> Some(gen.right)),
                            !.player_answers = [p \in PlayerSide |-> None],
                            !.first_to_answer = None,
                            !.phase = WAITING],
              raised |-> FALSE]

continue_to_next_round(g, cfg, gen) ==
    LET g1 == end_round(g)
    IN  IF g1.current_round >= cfg.total_rounds
        THEN [state |-> end_game(g1, cfg), raised |-> FALSE]
        ELSE start_new_round(g1, cfg, gen)

\* mutation: LEFT wins a tie
get_winner_tie_to_left(g) ==
    IF g.phase # FINISHED THEN None
    ELSE IF g.player_stats[LEFT].score >= g.player_stats[RIGHT].score THEN Some(LEFT)
    ELSE Some(RIGHT)

get_winner(g) ==
    IF g.phase # FINISHED THEN None
    ELSE IF g.player_stats[LEFT].score > g.player_stats[RIGHT].score THEN Some(LEFT)
    ELSE IF g.player_stats[RIGHT].score > g.player_stats[LEFT].score THEN Some(RIGHT)
    ELSE None

----------------------------------------------------------------------------
(* The state machine: one action per public call of GameState *)

\* riddle pools a game is constructed with
Entry(riddle, answer) == [riddle |-> riddle, answer |-> answer]
EmptyData == <<>>
OneData == <<Entry("r1", <<"a", "b">>)>>
PairData == <<Entry("r1", <<"a", "b">>), Entry("r2", <<"c", "d", "e", "f">>)>>

\* streak table without an entry for a streak of 2
SparseStreakBonus == (3 :> 2)

\* the (pool, config) pairs a GameState is constructed with
Setups ==
    {[data |-> OneData, config |-> GameConfig(n, 2, 1, DefaultStreakBonus, 4)] :
        n \in 1..MaxRounds}
    \cup {[data |-> OneData, config |-> GameConfig(3, 2, 1, SparseStreakBonus, 4)]}
    \cup {[data |-> PairData, config |-> GameConfig(1, 2, 1, DefaultStreakBonus, 4)]}
    \cup {[data |-> EmptyData, config |-> GameConfig(1, 2, 1, DefaultStreakBonus, 4)]}

\* the answer indices submitted
AnswerIndices == {0, 1}

Call(op, player, ret) == [op |-> op, player |-> player, ret |-> ret]

Store(g) ==
    /\ phase' = g.phase
    /\ current_round' = g.current_round
    /\ player_stats' = g.player_stats
    /\ player_questions' = g.player_questions
    /\ player_answers' = g.player_answers
    /\ first_to_answer' = g.first_to_answer
    /\ round_history' = g.round_history

\* no pure function applied yet
NoProbe == [fn |-> "none"]

\* GameUI.__init__ and GameHeader._create_ui: no timer, 12 rounds selected,
\* the next-round button created with display: none
InitUI ==
    /\ countdown_timer = None
    /\ countdown_seconds = 0
    /\ live_timers = 0
    /\ rounds_select = DefaultRounds
    /\ start_button_enabled = TRUE
    /\ next_round_button_shown = FALSE
    /\ dialog_open = FALSE
    /\ dialogs_open = 0
    /\ clicks_in_flight = 0
    /\ ui_event = [handler |-> "none", advanced |-> FALSE]

Init ==
    /\ \E s \in Setups : xiehouyu_data = s.data /\ config = s.config
    /\ phase = NewGameState.phase
    /\ current_round = NewGameState.current_round
    /\ player_stats = NewGameState.player_stats
    /\ player_questions = NewGameState.player_questions
    /\ player_answers = NewGameState.player_answers
    /\ first_to_answer = NewGameState.first_to_answer
    /\ round_history = NewGameState.round_history
    /\ last_call = Call("init", "none", "None")
    /\ called_in = "none"
    /\ probe = NoProbe
    /\ InitUI

StartGame ==
    \E gen \in GenOutcomes(xiehouyu_data) :
        LET r == start_game(Self, config, gen)
        IN  /\ Store(r.state)
            /\ last_call' = Call("start_game", "none",
                                 IF r.raised THEN "raised" ELSE "None")
            /\ called_in' = phase
            /\ UNCHANGED <<xiehouyu_data, config, probe, uivars>>

SubmitAnswer(player, answer_index) ==
    LET r == submit_answer(Self, config, player, answer_index)
    IN  /\ Store(r.state)
        /\ last_call' = Call("submit_answer", player, r.ret)
        /\ called_in' = phase
        /\ UNCHANGED <<xiehouyu_data, config, probe, uivars>>

ContinueToNextRound ==
    /\ Len(round_history) < MaxHistory
    /\ \E gen \in GenOutcomes(xiehouyu_data) :
        LET r == continue_to_next_round(Self, config, gen)
        IN  /\ Store(r.state)
            /\ last_call' = Call("continue_to_next_round", "none",
                                 IF r.raised THEN "raised" ELSE "None")
            /\ called_in' = phase
            /\ UNCHANGED <<xiehouyu_data, config, probe, uivars>>

\* The methods start_game, submit_answer and continue_to_next_round call on
\* self are public too: a caller can run each of them as a step of its own.

\* a direct call of start_new_round
StartNewRound ==
    /\ Len(round_history) < MaxDirectHistory
    /\ current_round >= config.total_rounds =>
            \A p \in PlayerSide : Len(player_stats[p].streak_bonuses) < MaxBonuses
    /\ \E gen \in GenOutcomes(xiehouyu_data) :
        LET r == start_new_round(Self, config, gen)
        IN  /\ Store(r.state)
            /\ last_call' = Call("start_new_round", "none",
                                 IF r.raised THEN "raised" ELSE "None")
            /\ called_in' = phase
            /\ UNCHANGED <<xiehouyu_data, config, probe, uivars>>

\* a direct call of show_round_feedback
ShowRoundFeedback ==
    /\ Len(round_history) < MaxDirectHistory
    /\ Store(show_round_feedback(Self))
    /\ last_call' = Call("show_round_feedback", "none", "None")
    /\ called_in' = phase
    /\ UNCHANGED <<xiehouyu_data, config, probe, uivars>>

\* a direct call of end_round
EndRound ==
    /\ Len(round_history) < MaxDirectHistory
    /\ Store(end_round(Self))
    /\ last_call' = Call("end_round", "none", "None")
    /\ called_in' = phase
    /\ UNCHANGED <<xiehouyu_data, config, probe, uivars>>

\* a direct call of end_game
EndGame ==
    /\ Len(round_history) < MaxDirectHistory
    /\ \A p \in PlayerSide : Len(player_stats[p].streak_bonuses) < MaxBonuses
    /\ Store(end_game(Self, config))
    /\ last_call' = Call("end_game", "none", "None")
    /\ called_in' = phase
    /\ UNCHANGED <<xiehouyu_data, config, probe, uivars>>

\* every public method of GameState that writes its fields
Next ==
    \/ StartGame
    \/ \E player \in PlayerSide, answer_index \in AnswerIndices :
          SubmitAnswer(player, answer_index)
    \/ ContinueToNextRound
    \/ StartNewRound
    \/ ShowRoundFeedback
    \/ EndRound
    \/ EndGame

Spec == Init /\ [][Next]_vars

\* The game as its callers run it: game_ui.py, and every other file of the
\* repository, calls start_game, submit_answer and continue_to_next_round
\* only, in any order.
NextCalls ==
    \/ StartGame
    \/ \E player \in PlayerSide, answer_index \in AnswerIndices :
          SubmitAnswer(player, answer_index)
    \/ ContinueToNextRound

SpecCalls == Init /\ [][NextCalls]_vars

\* The game as the presentation layer drives it: continue_to_next_round is
\* called only while the round's feedback is shown.
ContinueFromFeedback ==
    /\ phase = ROUND_FEEDBACK
    /\ ContinueToNextRound

NextPlay ==
    \/ StartGame
    \/ \E player \in PlayerSide, answer_index \in AnswerIndices :
          SubmitAnswer(player, answer_index)
    \/ ContinueFromFeedback

SpecPlay == Init /\ [][NextPlay]_vars

\* get_winner(): a query; its result is the outcome recorded in last_call
GetWinner ==
    LET winner == get_winner(Self)
    IN  /\ last_call' = Call("get_winner", "none",
                             IF IsNone(winner) THEN "None" ELSE Val(winner))
        /\ called_in' = phase
        /\ UNCHANGED <<gamevars, xiehouyu_data, config, probe, uivars>>

NextQuery ==
    \/ NextPlay
    \/ GetWinner

\* the games of SpecPlay, with get_winner called at any time
SpecQuery == Init /\ [][NextQuery]_vars

\* answer indices a caller may pass although no choice has them
WideAnswerIndices == {-1, 0, 4}

\* the indices of the 4 choices of a question
ValidAnswerIndices == 0..3

NextAnyIndex ==
    \/ StartGame
    \/ \E player \in PlayerSide, answer_index \in WideAnswerIndices :
          SubmitAnswer(player, answer_index)
    \/ ContinueFromFeedback

\* the played games, with submit_answer called with any integer
SpecAnyIndex == Init /\ [][NextAnyIndex]_vars

----------------------------------------------------------------------------
(* The scoring functions applied to inputs of their own *)

\* configurations for the scoring functions: the default streak table, a table
\* with a single entry, and a table with entries below 2 and from 8 on
WideStreakBonus == (1 :> 5) @@ (2 :> 1) @@ (7 :> 2) @@ (8 :> 6) @@ (9 :> 6)
ProbeTables == {DefaultStreakBonus, SparseStreakBonus, WideStreakBonus}
ProbeMaxBonuses == {3, 4}
ProbePoints == {1, 2, 3}
ProbeBonuses == {0, 1, 2}
DifficultyLevels == {1, 2, 3}

\* stats.add_wrong_answer(config) for a player on a streak of the given length
\* and a score of 10: the streak bonus is the last_round_score it leaves
ApplyAddWrongAnswer ==
    \E streak \in 0..MaxStreak, table \in ProbeTables, maxbonus \in ProbeMaxBonuses :
        LET cfg == GameConfig(DefaultRounds, 2, 1, table, maxbonus)
            stats == [NewPlayerStats EXCEPT !.current_streak = streak,
                                            !.max_streak = streak,
                                            !.correct_answers = streak,
                                            !.score = 10]
            out == add_wrong_answer(stats, cfg)
        IN  /\ probe' = [fn |-> "add_wrong_answer", streak |-> streak, cfg |-> cfg,
                         out |-> out]
            /\ UNCHANGED <<gamevars, xiehouyu_data, config, last_call, called_in, uivars>>

\* ScoreManager(config).calculate_score_and_details(is_correct, difficulty, first)
ApplyCalculateScore ==
    \E is_correct \in BOOLEAN, difficulty_level \in DifficultyLevels,
       is_first_to_answer \in BOOLEAN,
       points \in ProbePoints, bonus \in ProbeBonuses :
        LET cfg == GameConfig(DefaultRounds, points, bonus, DefaultStreakBonus, 4)
        IN  /\ probe' = [fn |-> "calculate_score_and_details", cfg |-> cfg,
                         is_correct |-> is_correct,
                         difficulty_level |-> difficulty_level,
                         is_first_to_answer |-> is_first_to_answer,
                         out |-> calculate_score_and_details(
                                     cfg, is_correct, difficulty_level,
                                     is_first_to_answer)]
            /\ UNCHANGED <<gamevars, xiehouyu_data, config, last_call, called_in, uivars>>

NextFn ==
    \/ ApplyAddWrongAnswer
    \/ ApplyCalculateScore

SpecFn == Init /\ [][NextFn]_vars

----------------------------------------------------------------------------
(* The question generator applied to pools of its own *)

\* four answers of one length
PlainPool ==
    <<Entry("r1", <<"a", "b">>), Entry("r2", <<"c", "d">>),
      Entry("r3", <<"e", "f">>), Entry("r4", <<"g", "h">>)>>
\* the first answer has two variants
VariantPool ==
    <<Entry("r1", <<"a", "b", SEMI, "c">>), Entry("r2", <<"c", "d">>),
      Entry("r3", <<"e", "f">>), Entry("r4", <<"g", "h">>)>>
\* two riddles share an answer
RepeatPool ==
    <<Entry("r1", <<"a", "b">>), Entry("r2", <<"a", "b">>),
      Entry("r3", <<"c", "d">>), Entry("r4", <<"e", "f">>),
      Entry("r5", <<"g", "h">>)>>
\* four riddles, two unique answers
FewAnswersPool ==
    <<Entry("r1", <<"a", "b">>), Entry("r2", <<"a", "b">>),
      Entry("r3", <<"a", "b">>), Entry("r4", <<"c", "d">>)>>
\* three riddles
ShortPool ==
    <<Entry("r1", <<"a", "b">>), Entry("r2", <<"c", "d">>),
      Entry("r3", <<"e", "f">>)>>
\* four answers of length 4 and a two-variant answer of length 3 whose first
\* variant has length 1
LengthPool ==
    <<Entry("r1", <<"w", "x", "y", "z">>), Entry("r2", <<"a", SEMI, "b">>),
      Entry("r3", <<"c", "d", "e", "f">>), Entry("r4", <<"g", "h", "i", "j">>),
      Entry("r5", <<"k", "l", "m", "n">>)>>

\* answers at the limits of the difficulty levels: 3 and 4, 6 and 7 characters
EasyMediumPool ==
    <<Entry("r1", <<"a", "b", "c">>), Entry("r2", <<"a", "b", "c", "d">>)>>

MediumHardPool ==
    <<Entry("r1", <<"a", "b", "c", "d", "e", "f">>),
      Entry("r2", <<"a", "b", "c", "d", "e", "f", "g">>)>>

\* an answer of 9 characters whose first variant has 3
LongVariantPool ==
    <<Entry("r1", <<"a", "b", "c", SPACE, SEMI, "d", "e", "f", "g">>),
      Entry("r2", <<"h", "i">>)>>

GenPools ==
    {EmptyData, OneData, PairData, ShortPool, PlainPool, VariantPool, RepeatPool,
     FewAnswersPool, LengthPool, EasyMediumPool, MediumHardPool, LongVariantPool}

\* a GameState constructed on one of the pools: its AnswerGenerator holds the pool
InitGen ==
    /\ xiehouyu_data \in GenPools
    /\ config = GameConfig(DefaultRounds, 2, 1, DefaultStreakBonus, 4)
    /\ phase = NewGameState.phase
    /\ current_round = NewGameState.current_round
    /\ player_stats = NewGameState.player_stats
    /\ player_questions = NewGameState.player_questions
    /\ player_answers = NewGameState.player_answers
    /\ first_to_answer = NewGameState.first_to_answer
    /\ round_history = NewGameState.round_history
    /\ last_call = Call("init", "none", "None")
    /\ called_in = "none"
    /\ probe = NoProbe
    /\ InitUI

\* answer_generator.generate_question(): random.choice raises IndexError on an
\* empty pool and no other statement of it raises; the generator keeps no
\* state between calls, so one call shows all it can return
ApplyGenerateQuestion ==
    /\ probe = NoProbe
    /\ IF Len(xiehouyu_data) = 0
       THEN probe' = [fn |-> "generate_question", raised |-> TRUE]
       ELSE \E q \in generate_question(xiehouyu_data) :
                probe' = [fn |-> "generate_question", raised |-> FALSE, out |-> q]
    /\ UNCHANGED <<gamevars, xiehouyu_data, config, last_call, called_in, uivars>>

NextGen == ApplyGenerateQuestion

SpecGen == InitGen /\ [][NextGen]_vars

----------------------------------------------------------------------------
(* GameUI: the handlers of the page, as functions of the GameUI object *)

\* the options of GameHeader.rounds_select
RoundOptions == {1, 3, 6, 12, 18}

\* the timer object GameUI.countdown_timer refers to
TIMER == "timer"

\* the GameUI object: its GameState and config, its own fields, its widgets
UISelf ==
    [g |-> Self, cfg |-> config,
     countdown_timer |-> countdown_timer,
     countdown_seconds |-> countdown_seconds,
     live_timers |-> live_timers,
     rounds_select |-> rounds_select,
     start_button_enabled |-> start_button_enabled,
     next_round_button_shown |-> next_round_button_shown,
     dialog_open |-> dialog_open,
     dialogs_open |-> dialogs_open]

\* if self.countdown_timer: self.countdown_timer.cancel(); self.countdown_timer = None
cancel_countdown_timer(u) ==
    IF IsNone(u.countdown_timer) THEN u
    ELSE [u EXCEPT !.countdown_timer = None, !.live_timers = @ - 1]

\* GameHeader.update_button_state
update_button_state(u) ==
    IF u.g.phase = SETUP THEN [u EXCEPT !.start_button_enabled = TRUE]
    ELSE IF u.g.phase \in {PLAYING, WAITING, ROUND_FEEDBACK}
    THEN [u EXCEPT !.start_button_enabled = FALSE]
    ELSE [u EXCEPT !.start_button_enabled = TRUE,
                   !.next_round_button_shown = FALSE]

\* the seconds _start_countdown(None) counts down from
countdown_length(g) ==
    IF g.player_stats[LEFT].last_round_score = 0
            \/ g.player_stats[RIGHT].last_round_score = 0
    THEN 9
    ELSE 3

\* _start_countdown: a new ui.timer replaces the reference, without a cancel
start_countdown(u) ==
    [u EXCEPT !.countdown_seconds = countdown_length(u.g),
              !.countdown_timer = Some(TIMER),
              !.live_timers = @ + 1]

\* GameUI._show_round_feedback
ui_show_round_feedback(u) ==
    start_countdown([u EXCEPT !.next_round_button_shown = TRUE])

\* GameOverDialog.show: builds a new dialog, makes self.dialog refer to it
\* and opens it; a dialog built before stays as it is
dialog_show(u) ==
    [u EXCEPT !.dialog_open = TRUE, !.dialogs_open = @ + 1]

\* mutation: outside the round feedback the countdown timer is left running
update_ui_keep_timer(u) ==
    LET u1 == update_button_state(u)
    IN  IF u1.g.phase = ROUND_FEEDBACK
        THEN ui_show_round_feedback(u1)
        ELSE LET u2 == [u1 EXCEPT !.next_round_button_shown = FALSE]
             IN  IF u2.g.phase = FINISHED
                 THEN dialog_show(u2)
                 ELSE u2

\* GameUI._update_ui
update_ui(u) ==
    LET u1 == update_button_state(u)
    IN  IF u1.g.phase = ROUND_FEEDBACK
        THEN ui_show_round_feedback(u1)
        ELSE LET u2 == cancel_countdown_timer(
                           [u1 EXCEPT !.next_round_button_shown = FALSE])
             IN  IF u2.g.phase = FINISHED
                 THEN dialog_show(u2)
                 ELSE u2

\* GameUI._on_answer_click: the page is refreshed only when the answer is accepted
on_answer_click(u, player, answer_index) ==
    LET r == submit_answer(u.g, u.cfg, player, answer_index)
    IN  [ui |-> IF r.ret = "True"
                THEN update_ui([u EXCEPT !.g = r.state])
                ELSE [u EXCEPT !.g = r.state],
         ret |-> r.ret]

\* GameUI._on_start_game
on_start_game(u, gen) ==
    LET cfg1 == [u.cfg EXCEPT !.total_rounds = u.rounds_select]
        r == start_game(u.g, cfg1, gen)
        u1 == [u EXCEPT !.cfg = cfg1, !.g = r.state]
    IN  [ui |-> IF r.raised THEN u1 ELSE update_ui(u1), raised |-> r.raised]

\* GameUI._on_reset_game: the answers, the questions, first_to_answer and
\* round_history are left as they are
on_reset_game(u) ==
    update_ui([u EXCEPT !.g.phase = SETUP,
                        !.g.current_round = 0,
                        !.g.player_stats = [p \in PlayerSide |-> NewPlayerStats],
                        !.rounds_select = DefaultRounds])

\* GameUI._start_new_game
ui_start_new_game(u) ==
    update_ui([u EXCEPT !.g.phase = SETUP,
                        !.g.current_round = 0,
                        !.g.player_stats = [p \in PlayerSide |-> NewPlayerStats]])

\* self.dialog.close(): closes the dialog built last, if it still is open
dialog_close(u) ==
    IF u.dialog_open
    THEN [u EXCEPT !.dialog_open = FALSE, !.dialogs_open = @ - 1]
    ELSE u

\* GameOverDialog._new_game, the handler of the new-game button of every
\* dialog built: closes the dialog built last, then GameUI._on_new_game
dialog_new_game(u) ==
    ui_start_new_game(dialog_close(u))

\* GameUI._on_next_round: no test of the phase
on_next_round(u, gen) ==
    LET u1 == cancel_countdown_timer(u)
        r == continue_to_next_round(u1.g, u1.cfg, gen)
        u2 == [u1 EXCEPT !.g = r.state]
    IN  [ui |-> IF r.raised THEN u2 ELSE update_ui(u2), raised |-> r.raised]

\* update_countdown advances the round: the countdown is over and the phase
\* still is ROUND_FEEDBACK
countdown_advances(u) ==
    ~(u.countdown_seconds > 0) /\ u.countdown_seconds <= 0
        /\ u.g.phase = ROUND_FEEDBACK

\* mutation: the callback counts down but never advances the round
update_countdown_never_advances(u, gen) ==
    IF u.countdown_seconds > 0
    THEN [ui |-> [u EXCEPT !.next_round_button_shown = TRUE,
                           !.countdown_seconds = @ - 1],
          raised |-> FALSE]
    ELSE [ui |-> u, raised |-> FALSE]

\* update_countdown, the callback of the timer
update_countdown(u, gen) ==
    IF u.countdown_seconds > 0
    THEN [ui |-> [u EXCEPT !.next_round_button_shown = TRUE,
                           !.countdown_seconds = @ - 1],
          raised |-> FALSE]
    ELSE IF countdown_advances(u)
    THEN LET u1 == cancel_countdown_timer(u)
             r == continue_to_next_round(u1.g, u1.cfg, gen)
             u2 == [u1 EXCEPT !.g = r.state]
         IN  [ui |-> IF r.raised THEN u2 ELSE update_ui(u2), raised |-> r.raised]
    ELSE [ui |-> u, raised |-> FALSE]

----------------------------------------------------------------------------
(* The page: one action per event the GameUI object handles *)

Event(handler, advanced) == [handler |-> handler, advanced |-> advanced]

StoreUI(u) ==
    /\ Store(u.g)
    /\ config' = u.cfg
    /\ countdown_timer' = u.countdown_timer
    /\ countdown_seconds' = u.countdown_seconds
    /\ live_timers' = u.live_timers
    /\ rounds_select' = u.rounds_select
    /\ start_button_enabled' = u.start_button_enabled
    /\ next_round_button_shown' = u.next_round_button_shown
    /\ dialog_open' = u.dialog_open
    /\ dialogs_open' = u.dialogs_open

\* initialize_game: the page is built on a loaded, non-empty pool with 12
\* rounds, 2 points and 1 bonus point
InitPage ==
    /\ xiehouyu_data = OneData
    /\ config = GameConfig(DefaultRounds, 2, 1, DefaultStreakBonus, 4)
    /\ phase = NewGameState.phase
    /\ current_round = NewGameState.current_round
    /\ player_stats = NewGameState.player_stats
    /\ player_questions = NewGameState.player_questions
    /\ player_answers = NewGameState.player_answers
    /\ first_to_answer = NewGameState.first_to_answer
    /\ round_history = NewGameState.round_history
    /\ last_call = Call("init", "none", "None")
    /\ called_in = "none"
    /\ probe = NoProbe
    /\ InitUI

\* a click on an answer button of player's panel
AnswerClick(player, answer_index) ==
    /\ \E u \in {UISelf} : \E r \in {on_answer_click(u, player, answer_index)} :
            StoreUI(r.ui)
    /\ ui_event' = Event("_on_answer_click", FALSE)
    /\ UNCHANGED <<xiehouyu_data, last_call, called_in, probe, clicks_in_flight>>

\* a choice in the rounds selector, which is enabled with the start button
SelectRounds(n) ==
    /\ start_button_enabled
    /\ dialogs_open = 0
    /\ n \in RoundOptions
    /\ n <= MaxPageRounds
    /\ rounds_select' = n
    /\ ui_event' = Event("rounds_select", FALSE)
    /\ UNCHANGED <<gamevars, xiehouyu_data, config, last_call, called_in, probe,
                   countdown_timer, countdown_seconds, live_timers,
                   start_button_enabled, next_round_button_shown, dialog_open,
                   dialogs_open, clicks_in_flight>>

\* a click on the start button
StartClick ==
    /\ start_button_enabled
    /\ dialogs_open = 0
    /\ rounds_select <= MaxPageRounds
    /\ \E gen \in GenOutcomes(xiehouyu_data) :
        LET r == on_start_game(UISelf, gen)
        IN  /\ StoreUI(r.ui)
    /\ ui_event' = Event("_on_start_game", FALSE)
    /\ UNCHANGED <<xiehouyu_data, last_call, called_in, probe, clicks_in_flight>>

\* a click on the reset button, which is always enabled
ResetClick ==
    /\ dialogs_open = 0
    /\ StoreUI(on_reset_game(UISelf))
    /\ ui_event' = Event("_on_reset_game", FALSE)
    /\ UNCHANGED <<xiehouyu_data, last_call, called_in, probe, clicks_in_flight>>

\* a click on the new-game button of the dialog on top
NewGameClick ==
    /\ dialogs_open > 0
    /\ StoreUI(dialog_new_game(UISelf))
    /\ ui_event' = Event("_new_game", FALSE)
    /\ UNCHANGED <<xiehouyu_data, last_call, called_in, probe, clicks_in_flight>>

\* a click on the close button of the dialog on top, which closes the dialog
\* the button was built in: the one built last if it is open, otherwise an
\* older one that a later show left open
CloseDialog ==
    /\ dialogs_open > 0
    /\ dialog_open' = FALSE
    /\ dialogs_open' = dialogs_open - 1
    /\ ui_event' = Event("dialog.close", FALSE)
    /\ UNCHANGED <<gamevars, xiehouyu_data, config, last_call, called_in, probe,
                   countdown_timer, countdown_seconds, live_timers, rounds_select,
                   start_button_enabled, next_round_button_shown,
                   clicks_in_flight>>

\* the browser: a click on the next-round button while it is displayed; the
\* button is hidden by its style only, its handler stays registered, so the
\* click is handled whatever the page has become when it arrives
ClickNextRound ==
    /\ next_round_button_shown
    /\ clicks_in_flight < MaxClicksInFlight
    /\ clicks_in_flight' = clicks_in_flight + 1
    /\ UNCHANGED <<gamevars, xiehouyu_data, config, last_call, called_in, probe,
                   countdown_timer, countdown_seconds, live_timers, rounds_select,
                   start_button_enabled, next_round_button_shown, dialog_open,
                   dialogs_open, ui_event>>

\* the server handles a next-round click: _on_next_round
HandleNextRoundClick ==
    /\ clicks_in_flight > 0
    /\ clicks_in_flight' = clicks_in_flight - 1
    /\ \E gen \in GenOutcomes(xiehouyu_data) :
        LET r == on_next_round(UISelf, gen)
        IN  /\ StoreUI(r.ui)
    /\ ui_event' = Event("_on_next_round", TRUE)
    /\ UNCHANGED <<xiehouyu_data, last_call, called_in, probe>>

\* the click handled on a page whose history is within the bound
NextRoundClick ==
    /\ Len(round_history) < MaxPageHistory
    /\ HandleNextRoundClick

\* a tick of a timer that was not cancelled: update_countdown
Tick ==
    /\ live_timers > 0
    /\ \E gen \in GenOutcomes(xiehouyu_data) :
        \E u \in {UISelf} : \E r \in {update_countdown(u, gen)} :
            StoreUI(r.ui)
    /\ ui_event' = Event("update_countdown", countdown_advances(UISelf))
    /\ UNCHANGED <<xiehouyu_data, last_call, called_in, probe, clicks_in_flight>>

\* the tick on a page whose history is within the bound
TimerTick ==
    /\ countdown_advances(UISelf) => Len(round_history) < MaxPageHistory
    /\ Tick

NextUI ==
    \/ \E player \in PlayerSide, answer_index \in AnswerIndices :
          AnswerClick(player, answer_index)
    \/ \E n \in RoundOptions : SelectRounds(n)
    \/ StartClick
    \/ ResetClick
    \/ NewGameClick
    \/ CloseDialog
    \/ ClickNextRound
    \/ NextRoundClick
    \/ TimerTick

SpecUI == InitPage /\ [][NextUI]_vars

----------------------------------------------------------------------------
(* One game played on the page to its end: the rounds are selected, the
   game is started once, and neither reset nor a new game is asked for *)

\* the session plays three rounds, an option of the rounds selector
SessionRounds == 3

\* the selector is set to the rounds of the session
SelectSessionRounds ==
    /\ start_button_enabled
    /\ dialogs_open = 0
    /\ rounds_select # SessionRounds
    /\ SessionRounds \in RoundOptions
    /\ rounds_select' = SessionRounds
    /\ ui_event' = Event("rounds_select", FALSE)
    /\ UNCHANGED <<gamevars, xiehouyu_data, config, last_call, called_in, probe,
                   countdown_timer, countdown_seconds, live_timers,
                   start_button_enabled, next_round_button_shown, dialog_open,
                   dialogs_open, clicks_in_flight>>

\* the click on the start button that begins the session's game
StartSession ==
    /\ start_button_enabled
    /\ dialogs_open = 0
    /\ rounds_select = SessionRounds
    /\ \E gen \in GenOutcomes(xiehouyu_data) :
        LET r == on_start_game(UISelf, gen)
        IN  /\ StoreUI(r.ui)
    /\ ui_event' = Event("_on_start_game", FALSE)
    /\ UNCHANGED <<xiehouyu_data, last_call, called_in, probe, clicks_in_flight>>

\* the click of a player who has not answered the round
Answers(player) ==
    /\ phase = WAITING
    /\ IsNone(player_answers[player])
    /\ \E answer_index \in AnswerIndices : AnswerClick(player, answer_index)

NextSession ==
    \/ SelectSessionRounds
    \/ StartSession
    \/ \E player \in PlayerSide, answer_index \in AnswerIndices :
          AnswerClick(player, answer_index)
    \/ ClickNextRound
    \/ HandleNextRoundClick
    \/ Tick

SpecSession == InitPage /\ [][NextSession]_vars

\* the three-round session in which ui.timer keeps calling update_countdown
\* every second until the timer is cancelled, and each player answers every
\* round put to them
FairSession ==
    /\ SpecSession
    /\ WF_vars(Tick)
    /\ \A player \in PlayerSide : WF_vars(Answers(player))

----------------------------------------------------------------------------
(* Vocabulary of the properties *)

Other(p) == IF p = LEFT THEN RIGHT ELSE LEFT

\* the step is a submit_answer call by p that returned True / False
Accepted(p) ==
    last_call' = Call("submit_answer", p, "True")
Rejected(p) ==
    last_call' = Call("submit_answer", p, "False")

\* in the state reached, the latest call is such a call
WasAccepted(p) == last_call = Call("submit_answer", p, "True")
WasRejected(p) == last_call = Call("submit_answer", p, "False")
WasContinue == last_call.op = "continue_to_next_round"

\* in an accepted call by p: the index submitted is the correct one of p's question
SubmittedCorrect(p) ==
    Val(player_answers'[p]) = Val(player_questions[p]).correct_index

\* in a state where p has answered: the answer is the correct one
AnsweredCorrect(p) ==
    /\ ~IsNone(player_answers[p])
    /\ ~IsNone(player_questions[p])
    /\ Val(player_answers[p]) = Val(player_questions[p]).correct_index

\* the streak bonus the configuration gives for a streak of length s (spec 4.2)
ConfiguredBonus(s) ==
    IF s >= 8 THEN config.max_streak_bonus
    ELSE IF s \in DOMAIN config.streak_bonus THEN config.streak_bonus[s]
    ELSE 0

----------------------------------------------------------------------------
(* Properties *)

\* C1: in every round the player whose submit_answer is accepted first (while
\* the other player's slot is still empty) becomes first_to_answer, and the
\* accepted submission of the other player afterwards leaves first_to_answer
\* naming the first one; this holds for both orders of the two players.
C1_FirstSubmitterKeepsPriority ==
    [][\A p \in PlayerSide :
        Accepted(p) =>
            IF IsNone(player_answers[Other(p)])
            THEN first_to_answer' = Some(p)
            ELSE /\ first_to_answer = Some(Other(p))
                 /\ first_to_answer' = Some(Other(p))]_vars

\* C1 witness: RIGHT answered first, LEFT's accepted answer followed, and RIGHT
\* still is first_to_answer
C1_Witness ==
    /\ WasAccepted(LEFT)
    /\ phase = ROUND_FEEDBACK
    /\ first_to_answer = Some(RIGHT)

\* C2: an accepted submit_answer with the correct index adds basePoints +
\* priorityBonus to the player's score when the player is the round's first
\* submitter and basePoints otherwise, and adds 1 to correct_answers and to
\* current_streak.
C2_CorrectAnswerScore ==
    [][\A p \in PlayerSide :
        (Accepted(p) /\ SubmittedCorrect(p)) =>
            /\ player_stats'[p].score = player_stats[p].score
                  + (IF IsNone(player_answers[Other(p)])
                     THEN config.points_per_correct + config.bonus_for_correct
                     ELSE config.points_per_correct)
            /\ player_stats'[p].correct_answers = player_stats[p].correct_answers + 1
            /\ player_stats'[p].current_streak = player_stats[p].current_streak + 1]_vars

\* C2 witness: base 2, bonus 1, round 1, both correct, LEFT first: 3 and 2
C2_Witness ==
    /\ WasAccepted(RIGHT)
    /\ current_round = 1
    /\ config.points_per_correct = 2 /\ config.bonus_for_correct = 1
    /\ first_to_answer = Some(LEFT)
    /\ AnsweredCorrect(LEFT) /\ AnsweredCorrect(RIGHT)
    /\ player_stats[LEFT].score = 3 /\ player_stats[LEFT].correct_answers = 1
    /\ player_stats[RIGHT].score = 2 /\ player_stats[RIGHT].correct_answers = 1

\* C3: right after an accepted submit_answer the phase is ROUND_FEEDBACK if
\* both answer slots are filled and WAITING if only one is.
C3_FeedbackIffBothAnswered ==
    \A p \in PlayerSide :
        WasAccepted(p) =>
            /\ ~IsNone(player_answers[p])
            /\ IF ~IsNone(player_answers[Other(p)])
               THEN phase = ROUND_FEEDBACK
               ELSE phase = WAITING

\* C3 witness: the second player's accepted call has just moved the game to
\* ROUND_FEEDBACK
C3_Witness ==
    /\ \E p \in PlayerSide : WasAccepted(p) /\ first_to_answer = Some(Other(p))
    /\ phase = ROUND_FEEDBACK
    /\ all_answered(player_answers)

\* C4: submit_answer called in a phase other than WAITING returns False and
\* changes nothing of the game state.
C4_WrongPhaseRejected ==
    [][\A p \in PlayerSide :
        (last_call'.op = "submit_answer" /\ last_call'.player = p /\ phase # WAITING) =>
            /\ Rejected(p)
            /\ UNCHANGED gamevars]_vars

\* C4 witness: a submission rejected during ROUND_FEEDBACK
C4_Witness ==
    /\ \E p \in PlayerSide : WasRejected(p)
    /\ phase = ROUND_FEEDBACK

\* C5: a second submit_answer of the same player in the same round returns
\* False and changes nothing of the game state.
C5_SecondSubmissionRejected ==
    [][\A p \in PlayerSide :
        (last_call'.op = "submit_answer" /\ last_call'.player = p
            /\ ~IsNone(player_answers[p])) =>
            /\ Rejected(p)
            /\ UNCHANGED gamevars]_vars

\* C5 witness: LEFT answered, RIGHT has not, and LEFT's second call was rejected
C5_Witness ==
    /\ WasRejected(LEFT)
    /\ phase = WAITING
    /\ ~IsNone(player_answers[LEFT])
    /\ IsNone(player_answers[RIGHT])

\* C6: continue_to_next_round called in a phase other than ROUND_FEEDBACK
\* changes nothing of the game state.
C6_ContinueOnlyFromFeedback ==
    [][(last_call'.op = "continue_to_next_round" /\ phase # ROUND_FEEDBACK) =>
            UNCHANGED gamevars]_vars

\* C7 (under SpecPlay, where every continue_to_next_round follows a round that
\* both players answered, so that the number of continues of the game is
\* Len(round_history)): the game is FINISHED only once total_rounds continues
\* were made, and the k-th continue with k < total_rounds leaves the game
\* WAITING in round k + 1 while the continue number total_rounds finishes it.
C7_FinishedExactlyAfterLastRound ==
    /\ phase = FINISHED =>
            /\ Len(round_history) = config.total_rounds
            /\ current_round = config.total_rounds
    /\ (WasContinue /\ last_call.ret = "None") =>
            IF Len(round_history) < config.total_rounds
            THEN phase = WAITING /\ current_round = Len(round_history) + 1
            ELSE phase = FINISHED

\* C7 witness: a game of 3 rounds finished by its third continue
C7_Witness ==
    /\ WasContinue
    /\ config.total_rounds = 3
    /\ phase = FINISHED
    /\ Len(round_history) = 3
    /\ \A i \in 1..3 : round_history[i].round = i

\* C8: current_round never exceeds config.total_rounds, whatever the order of
\* the calls.
C8_RoundNeverExceedsTotal ==
    current_round <= config.total_rounds

\* C8 witness: continue_to_next_round called once more on a finished game,
\* with the round counter at its limit
C8_Witness ==
    /\ WasContinue
    /\ phase = FINISHED
    /\ current_round = config.total_rounds
    /\ Len(round_history) > config.total_rounds

\* C9: an accepted wrong answer of a player whose streak s is at least 2 and
\* whose configured bonus b for s is positive adds b to the score, appends b
\* to streak_bonuses, adds 1 to wrong_answers and leaves current_streak at 0.
C9_WrongAnswerBanksStreakBonus ==
    [][\A p \in PlayerSide :
        LET s == player_stats[p].current_streak
            b == ConfiguredBonus(s)
        IN  (Accepted(p) /\ ~SubmittedCorrect(p) /\ s >= 2 /\ b > 0) =>
                /\ player_stats'[p].score = player_stats[p].score + b
                /\ player_stats'[p].streak_bonuses =
                        Append(player_stats[p].streak_bonuses, b)
                /\ player_stats'[p].wrong_answers = player_stats[p].wrong_answers + 1
                /\ player_stats'[p].current_streak = 0]_vars

\* C9 witness: LEFT answered two rounds correctly as second submitter
\* (2 + 2 points) and then wrong: bonus 1 for the streak of 2, streak back to 0
C9_Witness ==
    /\ WasAccepted(LEFT)
    /\ current_round = 3
    /\ ~AnsweredCorrect(LEFT)
    /\ player_stats[LEFT].correct_answers = 2
    /\ player_stats[LEFT].wrong_answers = 1
    /\ player_stats[LEFT].max_streak = 2
    /\ player_stats[LEFT].current_streak = 0
    /\ player_stats[LEFT].streak_bonuses = <<1>>
    /\ player_stats[LEFT].priority_answer_count = 0
    /\ player_stats[LEFT].score = 5

\* C10: in every call that ends the game (the phase is FINISHED when it
\* returns), a player whose streak s is at least 2 and whose configured bonus
\* b is positive has b added to the score and appended to streak_bonuses;
\* every other player's score and streak_bonuses stay as they are; nobody's
\* current_streak changes.
C10_EndOfGameStreakBonus ==
    [][(last_call'.op = "continue_to_next_round" /\ phase' = FINISHED) =>
        \A p \in PlayerSide :
            LET s == player_stats[p].current_streak
                b == ConfiguredBonus(s)
            IN  /\ player_stats'[p].current_streak = s
                /\ IF s >= 2 /\ b > 0
                   THEN /\ player_stats'[p].score = player_stats[p].score + b
                        /\ player_stats'[p].streak_bonuses =
                                Append(player_stats[p].streak_bonuses, b)
                   ELSE /\ player_stats'[p].score = player_stats[p].score
                        /\ player_stats'[p].streak_bonuses =
                                player_stats[p].streak_bonuses]_vars

\* C10 witness: a game of 2 rounds just finished; LEFT ends on a streak of 2
\* with its bonus banked and the streak kept, RIGHT ends on a streak of 1 with
\* nothing banked
C10_Witness ==
    /\ WasContinue
    /\ phase = FINISHED
    /\ config.total_rounds = 2
    /\ Len(round_history) = 2
    /\ player_stats[LEFT].current_streak = 2
    /\ player_stats[LEFT].streak_bonuses = <<1>>
    /\ player_stats[LEFT].score = round_history[2].scores[LEFT] + 1
    /\ player_stats[RIGHT].current_streak = 1
    /\ player_stats[RIGHT].streak_bonuses = <<>>
    /\ player_stats[RIGHT].score = round_history[2].scores[RIGHT]

\* C11: streak_bonuses of a player grows only in an accepted wrong
\* submit_answer of that player or in the step that moves the game to
\* FINISHED from another phase.
C11_BonusBankedOnlyOnWrongOrFinish ==
    [][\A p \in PlayerSide :
        Len(player_stats'[p].streak_bonuses) > Len(player_stats[p].streak_bonuses) =>
            \/ Accepted(p) /\ ~SubmittedCorrect(p)
            \/ /\ last_call'.op = "continue_to_next_round"
               /\ phase # FINISHED
               /\ phase' = FINISHED]_vars

\* C12: the bonus for ending a streak of s is 0 when s < 2, max_streak_bonus
\* when s >= 8 whatever the table holds, and otherwise the table's entry for s
\* or 0 when it has none; a positive bonus is added to the score and appended
\* to streak_bonuses. With the default table and maximum 4 the bonus is 0 for
\* s = 1, 2 for s = 5 and 4 for s = 8 and for s = 9.
C12_StreakBonusValue ==
    probe.fn = "add_wrong_answer" =>
        LET s == probe.streak
            table == probe.cfg.streak_bonus
            bonus == probe.out.last_round_score
        IN  /\ s < 2 => bonus = 0
            /\ s >= 8 => bonus = probe.cfg.max_streak_bonus
            /\ (s >= 2 /\ s < 8 /\ s \in DOMAIN table) => bonus = table[s]
            /\ (s >= 2 /\ s < 8 /\ s \notin DOMAIN table) => bonus = 0
            /\ probe.out.score = 10 + bonus
            /\ probe.out.streak_bonuses = IF bonus > 0 THEN <<bonus>> ELSE <<>>
            /\ (table = DefaultStreakBonus /\ probe.cfg.max_streak_bonus = 4) =>
                    /\ s = 1 => bonus = 0
                    /\ s = 5 => bonus = 2
                    /\ s = 8 => bonus = 4
                    /\ s = 9 => bonus = 4

\* C12 witness: a streak of 8 ended under a table whose entry for 8 is 6 and a
\* maximum of 4: the bonus is 4
C12_Witness ==
    /\ probe.fn = "add_wrong_answer"
    /\ probe.streak = 8
    /\ probe.cfg.streak_bonus = WideStreakBonus
    /\ probe.cfg.max_streak_bonus = 4
    /\ probe.out.last_round_score = 4
    /\ probe.out.current_streak = 0

\* C13: calculate_score_and_details returns 0 for a wrong answer whatever the
\* priority and the difficulty, base + bonus for a correct answer of the first
\* submitter and base for a correct answer otherwise; the difficulty level
\* never changes the score.
C13_ScoreOfAnAnswer ==
    probe.fn = "calculate_score_and_details" =>
        probe.out.score =
            IF ~probe.is_correct THEN 0
            ELSE IF probe.is_first_to_answer
                 THEN probe.cfg.points_per_correct + probe.cfg.bonus_for_correct
                 ELSE probe.cfg.points_per_correct

\* C13 witness: a correct answer of difficulty 3 that is not the first, with
\* base 2 and bonus 1, scores 2
C13_Witness ==
    /\ probe.fn = "calculate_score_and_details"
    /\ probe.is_correct /\ ~probe.is_first_to_answer
    /\ probe.difficulty_level = 3
    /\ probe.cfg.points_per_correct = 2 /\ probe.cfg.bonus_for_correct = 1
    /\ probe.out.score = 2

\* C14: priority_answer_count of a player grows only by 1 and only in an
\* accepted correct answer of the round's first submitter, which is the only
\* answer paid base + bonus; an accepted correct answer of the second
\* submitter is paid base and counts no priority, also when the first
\* submitter was wrong; so the priority answers of both players together
\* never exceed the number of rounds started.
C14_PriorityOnlyForFirstSubmitter ==
    [][/\ \A p \in PlayerSide :
            LET before == player_stats[p]
                after == player_stats'[p]
            IN  /\ after.priority_answer_count > before.priority_answer_count =>
                        /\ Accepted(p) /\ SubmittedCorrect(p)
                        /\ IsNone(player_answers[Other(p)])
                        /\ first_to_answer' = Some(p)
                        /\ after.priority_answer_count = before.priority_answer_count + 1
                /\ (Accepted(p) /\ SubmittedCorrect(p)
                        /\ after.priority_answer_count = before.priority_answer_count) =>
                        after.score = before.score + config.points_per_correct
                /\ (Accepted(p) /\ SubmittedCorrect(p)
                        /\ ~IsNone(player_answers[Other(p)])) =>
                        /\ after.priority_answer_count = before.priority_answer_count
                        /\ after.score = before.score + config.points_per_correct
       /\ player_stats'[LEFT].priority_answer_count
            + player_stats'[RIGHT].priority_answer_count <= current_round']_vars

\* C14 witness: in round 1 LEFT answered first and wrong, RIGHT then answered
\* correctly: RIGHT has the base points and nobody a priority answer
C14_Witness ==
    /\ WasAccepted(RIGHT)
    /\ current_round = 1
    /\ first_to_answer = Some(LEFT)
    /\ ~AnsweredCorrect(LEFT)
    /\ AnsweredCorrect(RIGHT)
    /\ player_stats[RIGHT].score = config.points_per_correct
    /\ player_stats[LEFT].priority_answer_count = 0
    /\ player_stats[RIGHT].priority_answer_count = 0

\* C15: an accepted submit_answer(player, i) counts as correct exactly when i
\* is the correct_index of that player's own question, whatever the correct
\* index of the other player's question is.
C15_JudgedAgainstOwnQuestion ==
    [][\A p \in PlayerSide :
        Accepted(p) =>
            LET i == Val(player_answers'[p])
                own == Val(player_questions[p]).correct_index
                before == player_stats[p]
                after == player_stats'[p]
            IN  IF i = own
                THEN /\ after.correct_answers = before.correct_answers + 1
                     /\ after.wrong_answers = before.wrong_answers
                ELSE /\ after.correct_answers = before.correct_answers
                     /\ after.wrong_answers = before.wrong_answers + 1]_vars

\* C15 witness: the two questions of round 1 have different correct indices;
\* RIGHT submitted the index that is correct for LEFT's question and was
\* counted wrong
C15_Witness ==
    /\ WasAccepted(RIGHT)
    /\ current_round = 1
    /\ Val(player_questions[LEFT]).correct_index
            # Val(player_questions[RIGHT]).correct_index
    /\ Val(player_answers[RIGHT]) = Val(player_questions[LEFT]).correct_index
    /\ player_stats[RIGHT].wrong_answers = 1
    /\ player_stats[RIGHT].correct_answers = 0

\* C16: whatever the phase it is called in, a start_game that returns, on a
\* game of at least one round, leaves current_round = 1, both players' stats
\* all zero with empty streak_bonuses, round_history empty, both answer slots
\* empty, first_to_answer unset, fresh questions and the phase WAITING.
C16_StartGameResets ==
    (last_call = Call("start_game", "none", "None") /\ config.total_rounds >= 1) =>
        /\ current_round = 1
        /\ \A p \in PlayerSide :
                /\ player_stats[p] = NewPlayerStats
                /\ player_stats[p].score = 0
                /\ player_stats[p].streak_bonuses = <<>>
                /\ IsNone(player_answers[p])
                /\ ~IsNone(player_questions[p])
        /\ round_history = <<>>
        /\ IsNone(first_to_answer)
        /\ phase = WAITING

\* C16 witness: start_game called on a finished game
C16_Witness ==
    /\ last_call = Call("start_game", "none", "None")
    /\ called_in = FINISHED
    /\ phase = WAITING
    /\ current_round = 1
    /\ round_history = <<>>

\* C17: every call that starts a round (it leaves the phase WAITING) leaves
\* both answer slots empty and first_to_answer unset; a continue_to_next_round
\* that starts a round adds exactly 1 to current_round and changes nothing of
\* the players' stats; a start_game starts round 1.
C17_NewRoundState ==
    [][(last_call'.op \in {"continue_to_next_round", "start_game"}
            /\ phase' = WAITING) =>
        /\ \A p \in PlayerSide : IsNone(player_answers'[p])
        /\ IsNone(first_to_answer')
        /\ IF last_call'.op = "continue_to_next_round"
           THEN /\ current_round' = current_round + 1
                /\ player_stats' = player_stats
           ELSE current_round' = 1]_vars

\* C17 witness: round 2 started from the feedback of round 1, in which LEFT
\* answered first and correctly: its score and streak are carried over
C17_Witness ==
    /\ WasContinue
    /\ called_in = ROUND_FEEDBACK
    /\ phase = WAITING
    /\ current_round = 2
    /\ player_stats[LEFT].score = config.points_per_correct + config.bonus_for_correct
    /\ player_stats[LEFT].current_streak = 1
    /\ IsNone(player_answers[LEFT]) /\ IsNone(player_answers[RIGHT])
    /\ IsNone(first_to_answer)

\* C18: a continue_to_next_round called in ROUND_FEEDBACK appends exactly one
\* record, holding the current round number, both questions, both answers and
\* both scores at the time of the call; no submit_answer or
\* continue_to_next_round removes, reorders or alters a record already there.
C18_HistoryAppendOnly ==
    [][/\ (last_call'.op = "continue_to_next_round" /\ phase = ROUND_FEEDBACK) =>
            round_history' =
                Append(round_history,
                       [round |-> current_round,
                        questions |-> player_questions,
                        answers |-> player_answers,
                        scores |-> [p \in PlayerSide |-> player_stats[p].score]])
       /\ last_call'.op = "submit_answer" => round_history' = round_history
       /\ last_call'.op = "continue_to_next_round" =>
            /\ Len(round_history') = Len(round_history) + 1
            /\ SubSeq(round_history', 1, Len(round_history)) = round_history]_vars

\* C18 witness: the feedback of round 2 was continued: two records, for rounds
\* 1 and 2, each with both answers
C18_Witness ==
    /\ WasContinue
    /\ called_in = ROUND_FEEDBACK
    /\ Len(round_history) = 2
    /\ round_history[1].round = 1
    /\ round_history[2].round = 2
    /\ \A k \in 1..2 : \A p \in PlayerSide : ~IsNone(round_history[k].answers[p])
    /\ round_history[2].scores[LEFT] = player_stats[LEFT].score

\* C19: get_winner called in FINISHED returns LEFT when LEFT's score is
\* strictly greater, RIGHT when RIGHT's is strictly greater and None when the
\* scores are equal; called in any other phase it returns None whatever the
\* scores; it changes nothing of the game state.
C19_GetWinner ==
    [][last_call'.op = "get_winner" =>
        /\ UNCHANGED gamevars
        /\ last_call'.ret =
                IF phase # FINISHED THEN "None"
                ELSE IF player_stats[LEFT].score > player_stats[RIGHT].score THEN LEFT
                ELSE IF player_stats[RIGHT].score > player_stats[LEFT].score THEN RIGHT
                ELSE "None"]_vars

\* C19 witness: a finished game of 3 rounds in which both players had 6 points
\* when round 3 was recorded and LEFT's end-of-game streak bonus made it 7 to
\* 6: get_winner returned LEFT
C19_Witness ==
    /\ last_call = Call("get_winner", "none", LEFT)
    /\ phase = FINISHED
    /\ Len(round_history) = 3
    /\ round_history[3].scores[LEFT] = 6
    /\ round_history[3].scores[RIGHT] = 6
    /\ player_stats[LEFT].score = 7
    /\ player_stats[RIGHT].score = 6

\* the scores are level in a finished game and get_winner returned None
C19_TieWitness ==
    /\ last_call = Call("get_winner", "none", "None")
    /\ phase = FINISHED
    /\ player_stats[LEFT].score = player_stats[RIGHT].score
    /\ player_stats[LEFT].score > 0

\* C20: every handler run that invokes continue_to_next_round, a next-round
\* click or a timer tick, finds the phase ROUND_FEEDBACK and leaves it, with
\* no timer left running: continue_to_next_round is invoked at most once for
\* each ROUND_FEEDBACK phase.
C20_NoDoubleAdvance ==
    [][ui_event'.advanced =>
            /\ phase = ROUND_FEEDBACK
            /\ phase' # ROUND_FEEDBACK
            /\ IsNone(countdown_timer')
            /\ live_timers' = 0]_vars

\* the timer's part of C20: a tick advances the round only in ROUND_FEEDBACK,
\* and after any advance no timer is left running
C20_TimerSide ==
    [][/\ (ui_event'.advanced /\ ui_event'.handler = "update_countdown") =>
                phase = ROUND_FEEDBACK /\ phase' # ROUND_FEEDBACK
       /\ ui_event'.advanced => IsNone(countdown_timer') /\ live_timers' = 0]_vars

----------------------------------------------------------------------------
(* Claims about the question generator *)

\* a question was generated from the pool of the state
Generated == probe.fn = "generate_question" /\ ~probe.raised

\* the canonical answers of the pool
CanonicalAnswers == {FirstVariant(xiehouyu_data[i].answer) : i \in 1..Len(xiehouyu_data)}

\* the positions of a question's choices that hold its distractors
DistractorPositions(q) == (1..Len(q.choices)) \ {q.correct_index + 1}

\* C21: in every generated question exactly one choice is textually equal to
\* correct_answer, and choices[correct_index] is correct_answer.
C21_ExactlyOneCorrectChoice ==
    Generated =>
        LET q == probe.out
        IN  /\ Cardinality({i \in 1..Len(q.choices) : q.choices[i] = q.correct_answer}) = 1
            /\ q.choices[q.correct_index + 1] = q.correct_answer

\* the part of C21 that holds: choices[correct_index] is correct_answer
C21_CorrectIndexPointsAtAnswer ==
    Generated => probe.out.choices[probe.out.correct_index + 1] = probe.out.correct_answer

\* C22: on a pool of at least 4 riddles of which at least 3 have an answer
\* other than the correct answer, generate_question returns a question with
\* exactly 4 choices, correct_index in 0..3 and difficulty_level in {1, 2, 3}.
C22_FourChoices ==
    (probe.fn = "generate_question" /\ Len(xiehouyu_data) >= 4) =>
        /\ ~probe.raised
        /\ LET q == probe.out
               eligible == {i \in 1..Len(xiehouyu_data) :
                                xiehouyu_data[i].answer # q.correct_answer}
           IN  Cardinality(eligible) >= 3 =>
                    /\ Len(q.choices) = 4
                    /\ Len(q.masked_choices) = 4
                    /\ q.correct_index \in 0..3
                    /\ q.difficulty_level \in DifficultyLevels

\* C22 witness: the correct answer has length 1 and no answer of the pool is
\* within 2 of it, so the three distractors come from the fall-back set
C22_Witness ==
    /\ Generated
    /\ xiehouyu_data = LengthPool
    /\ probe.out.correct_answer = <<"a">>
    /\ Len(probe.out.choices) = 4
    /\ probe.out.correct_index = 3
    /\ probe.out.difficulty_level = 1

\* C23: on a non-empty pool with fewer than 4 unique answers generate_question
\* raises and returns no question.
C23_TooFewAnswersRaises ==
    (probe.fn = "generate_question" /\ Len(xiehouyu_data) > 0
            /\ Cardinality(CanonicalAnswers) < 4) =>
        probe.raised

\* C28: when at least 3 canonical answers of the pool other than the correct
\* answer have a length within 2 of the correct answer's, every distractor of
\* the question has a length within 2 of the correct answer's.
C28_DistractorsOfSimilarLength ==
    Generated =>
        LET q == probe.out
            near(a) == Abs(Len(a) - Len(q.correct_answer)) <= 2
            candidates == {a \in CanonicalAnswers : a # q.correct_answer /\ near(a)}
        IN  Cardinality(candidates) >= 3 =>
                \A i \in DistractorPositions(q) : near(q.choices[i])

----------------------------------------------------------------------------
(* Claims about failures and phases *)

\* C24: a start_game or continue_to_next_round in which question generation
\* raises does not start or advance a round: current_round is not
\* incremented, the phase does not become WAITING and is not left PLAYING.
C24_FailedGenerationStartsNoRound ==
    [][(last_call'.op \in {"start_game", "continue_to_next_round"}
            /\ last_call'.ret = "raised") =>
        /\ current_round' <= current_round
        /\ phase' # WAITING
        /\ phase' # PLAYING]_vars

\* C25: a submit_answer with an answer index outside 0..3 is not accepted: it
\* does not return True and fills no answer slot.
C25_OutOfRangeIndexNotAccepted ==
    [][\A p \in PlayerSide :
        Accepted(p) => Val(player_answers'[p]) \in ValidAnswerIndices]_vars

\* the phase changes a call other than start_game may make, PLAYING being
\* seen only when a call raised
PhaseEdges ==
    {<<SETUP, PLAYING>>, <<PLAYING, WAITING>>, <<WAITING, ROUND_FEEDBACK>>,
     <<ROUND_FEEDBACK, PLAYING>>, <<ROUND_FEEDBACK, WAITING>>,
     <<ROUND_FEEDBACK, FINISHED>>, <<PLAYING, FINISHED>>}

\* C26: a call other than start_game changes the phase only along the edges
\* of the state machine; FINISHED is entered only from the ROUND_FEEDBACK of
\* the last round; WAITING is left only for the ROUND_FEEDBACK of the same
\* round, with both answers given.
C26_PhaseEdges ==
    [][last_call'.op # "start_game" =>
        /\ phase' # phase => <<phase, phase'>> \in PhaseEdges
        /\ (phase' = FINISHED /\ phase # FINISHED) =>
                phase = ROUND_FEEDBACK /\ current_round = config.total_rounds
        /\ phase = WAITING =>
                /\ current_round' = current_round
                /\ phase' \in {WAITING, ROUND_FEEDBACK}
                /\ phase' = ROUND_FEEDBACK => all_answered(player_answers')]_vars

\* C27: when start_game or continue_to_next_round returns normally the phase
\* is WAITING or FINISHED; submit_answer never moves the phase to PLAYING; a
\* game on a non-empty pool is never seen in PLAYING.
C27_PlayingIsTransient ==
    [][/\ (last_call'.op \in {"start_game", "continue_to_next_round"}
                /\ last_call'.ret = "None") =>
            phase' \in {WAITING, FINISHED}
       /\ (last_call'.op = "submit_answer" /\ phase' = PLAYING) =>
            phase = PLAYING /\ last_call'.ret = "False"
       /\ xiehouyu_data # <<>> => phase' # PLAYING]_vars

\* C27 witness: the continue of the last round's feedback returned and left
\* the game FINISHED
C27_Witness ==
    /\ last_call = Call("continue_to_next_round", "none", "None")
    /\ called_in = ROUND_FEEDBACK
    /\ xiehouyu_data # <<>>
    /\ phase = FINISHED
    /\ current_round = 3

----------------------------------------------------------------------------
(* Claims about the countdown of the round feedback *)

\* player's answer of the round just closed is not the correct index
AnsweredWrong(player) ==
    Val(player_answers'[player]) # Val(player_questions'[player]).correct_index

\* C29: on entering the round feedback the countdown starts at 9 seconds if
\* at least one player answered the round incorrectly and at 3 seconds only
\* if both answered correctly.
C29_CountdownLength ==
    [][(phase # ROUND_FEEDBACK /\ phase' = ROUND_FEEDBACK) =>
        countdown_seconds' =
            IF \E player \in PlayerSide : AnsweredWrong(player) THEN 9 ELSE 3]_vars

\* C30: with the timer ticking and neither reset nor start pressed, a round
\* feedback whose countdown was started is eventually left by a call of
\* continue_to_next_round, made by the timer or by the button; and a game
\* whose players answer every round eventually is FINISHED.  The game has
\* SessionRounds rounds: each feedback but the last is left for the next
\* round's WAITING, where a new countdown is started once both have answered.
C30_FeedbackEndsAndGameFinishes ==
    /\ (phase = ROUND_FEEDBACK /\ live_timers > 0)
            ~> (phase # ROUND_FEEDBACK /\ ui_event.advanced)
    /\ (phase = WAITING) ~> (phase = FINISHED)

\* C30 witness: the countdown ran out and the timer's callback advanced the
\* last of the three rounds of the game, which is FINISHED with a record of
\* each round
C30_Witness ==
    /\ ui_event = Event("update_countdown", TRUE)
    /\ countdown_seconds = 0
    /\ clicks_in_flight = 0
    /\ config.total_rounds = SessionRounds
    /\ current_round = SessionRounds
    /\ Len(round_history) = SessionRounds
    /\ phase = FINISHED

\* C32: the difficulty_level of a generated question is 1 when its correct
\* answer has at most 3 characters, 2 when it has 4 to 6, 3 when it has 7 or
\* more; the correct answer is a canonical answer of the pool.
C32_DifficultyByLength ==
    Generated =>
        LET q == probe.out
            n == Len(q.correct_answer)
        IN  /\ q.correct_answer \in CanonicalAnswers
            /\ q.difficulty_level = 1 <=> n <= 3
            /\ q.difficulty_level = 2 <=> n \in 4..6
            /\ q.difficulty_level = 3 <=> n >= 7

\* C32 witness: the answer of 9 characters was cut to its first variant of 3
\* characters, and the question is of difficulty 1
C32_Witness ==
    /\ Generated
    /\ xiehouyu_data = LongVariantPool
    /\ probe.out.correct_answer = <<"a", "b", "c">>
    /\ probe.out.difficulty_level = 1

\* a question of each of the other levels, with an answer at the level's limit
C32_LimitsReached ==
    /\ Generated
    /\ xiehouyu_data = MediumHardPool
    /\ Len(probe.out.correct_answer) = 7
    /\ probe.out.difficulty_level = 3

----------------------------------------------------------------------------
(* Claims about reset, final scores and the game's invariants *)

\* the step is the handler of the reset button or of the dialog's new game
IsReset ==
    ui_event'.handler \in {"_on_reset_game", "_new_game"}

\* C31: reset and new game put the game in SETUP with current_round 0, both
\* PlayerStats zeroed and no countdown timer; from then on, until the start
\* button's handler runs, the game stays as it is: answers are rejected and
\* no tick advances it.
C31_ResetToSetup ==
    [][/\ IsReset =>
            /\ phase' = SETUP
            /\ current_round' = 0
            /\ player_stats' = [p \in PlayerSide |-> NewPlayerStats]
            /\ IsNone(countdown_timer')
            /\ live_timers' = 0
       /\ (phase = SETUP /\ ui_event'.handler # "_on_start_game" /\ ~IsReset) =>
            UNCHANGED gamevars]_vars

\* C33: for each player the components of get_score_breakdown add up to the
\* score: correct_answers * points_per_correct + priority_answer_count *
\* bonus_for_correct + the sum of streak_bonuses.
C33_ScoreDecomposition ==
    \A p \in PlayerSide :
        LET b == get_score_breakdown(player_stats[p], config)
        IN  b.total_score = b.base_score + b.priority_score + b.streak_total

\* C33 witness: a player's score has all three components
C33_Witness ==
    \E p \in PlayerSide :
        LET b == get_score_breakdown(player_stats[p], config)
        IN  /\ b.base_score > 0
            /\ b.priority_score > 0
            /\ b.streak_total > 0
            /\ player_stats[p].wrong_answers > 0

\* C34: once the phase is FINISHED no call other than start_game changes a
\* player's score or streak_bonuses.
C34_FinalScoresStable ==
    [][(phase = FINISHED /\ last_call'.op # "start_game") =>
        \A p \in PlayerSide :
            /\ player_stats'[p].score = player_stats[p].score
            /\ player_stats'[p].streak_bonuses = player_stats[p].streak_bonuses]_vars

\* the answers player has given in the game
AnswersGiven(p) == player_stats[p].correct_answers + player_stats[p].wrong_answers

\* C35: in a game whose continues are made in ROUND_FEEDBACK only, each
\* player's correct_answers + wrong_answers is current_round when the
\* player's answer slot is filled and current_round - 1 when it is empty; in
\* ROUND_FEEDBACK and FINISHED it is current_round for both players.
C35_AnswerCount ==
    /\ phase \in {WAITING, ROUND_FEEDBACK, FINISHED} =>
        \A p \in PlayerSide :
            AnswersGiven(p) =
                IF IsNone(player_answers[p]) THEN current_round - 1 ELSE current_round
    /\ phase \in {ROUND_FEEDBACK, FINISHED} =>
        \A p \in PlayerSide : AnswersGiven(p) = current_round

\* C35 witness: in the third round one player has answered and the other has not
C35_Witness ==
    /\ phase = WAITING
    /\ current_round = 3
    /\ ~IsNone(player_answers[LEFT])
    /\ IsNone(player_answers[RIGHT])
    /\ AnswersGiven(LEFT) = 3
    /\ AnswersGiven(RIGHT) = 2

\* C36: in a game whose continues are made in ROUND_FEEDBACK only,
\* round_history has current_round - 1 records while the phase is WAITING or
\* ROUND_FEEDBACK and total_rounds records when it is FINISHED, and its i-th
\* record carries the round number i.
C36_RoundHistory ==
    /\ phase \in {WAITING, ROUND_FEEDBACK} => Len(round_history) = current_round - 1
    /\ phase = FINISHED => Len(round_history) = config.total_rounds
    /\ \A i \in 1..Len(round_history) : round_history[i].round = i

\* C36 witness: a game of three rounds is finished with its three records
C36_Witness ==
    /\ phase = FINISHED
    /\ config.total_rounds = 3
    /\ Len(round_history) = 3
    /\ round_history[3].round = 3
    /\ round_history[1].round = 1

\* C37: for each player 0 <= current_streak <= max_streak <= correct_answers
\* in every state; an accepted correct answer adds exactly 1 to the player's
\* current_streak and an accepted wrong answer sets it to 0; max_streak
\* decreases only when start_game begins a new game.
C37_Streaks ==
    /\ [](\A p \in PlayerSide :
            /\ 0 <= player_stats[p].current_streak
            /\ player_stats[p].current_streak <= player_stats[p].max_streak
            /\ player_stats[p].max_streak <= player_stats[p].correct_answers)
    /\ [][\A p \in PlayerSide :
            /\ (Accepted(p) /\ SubmittedCorrect(p)) =>
                    player_stats'[p].current_streak = player_stats[p].current_streak + 1
            /\ (Accepted(p) /\ ~SubmittedCorrect(p)) =>
                    player_stats'[p].current_streak = 0
            /\ last_call'.op # "start_game" =>
                    player_stats'[p].max_streak >= player_stats[p].max_streak]_vars

\* C37 witness: a wrong answer has ended a streak of 2, which max_streak keeps
C37_Witness ==
    /\ WasAccepted(LEFT)
    /\ ~AnsweredCorrect(LEFT)
    /\ player_stats[LEFT].current_streak = 0
    /\ player_stats[LEFT].max_streak = 2
    /\ player_stats[LEFT].correct_answers = 2

\* C38: an accepted submit_answer of a player leaves the other player's
\* PlayerStats and answer slot, both questions, current_round, round_history,
\* the pool and the config as they were; it fills the player's own slot.
C38_SubmitFrame ==
    [][\A p \in PlayerSide :
        Accepted(p) =>
            /\ player_stats'[Other(p)] = player_stats[Other(p)]
            /\ player_answers'[Other(p)] = player_answers[Other(p)]
            /\ player_questions' = player_questions
            /\ current_round' = current_round
            /\ round_history' = round_history
            /\ xiehouyu_data' = xiehouyu_data
            /\ config' = config
            /\ IsNone(player_answers[p]) /\ ~IsNone(player_answers'[p])
            /\ phase' \in {WAITING, ROUND_FEEDBACK}]_vars

\* C38 witness: the second answer of the second round was accepted and moved
\* the game to the feedback, the other player having scored before
C38_Witness ==
    /\ WasAccepted(RIGHT)
    /\ phase = ROUND_FEEDBACK
    /\ current_round = 2
    /\ first_to_answer = Some(LEFT)
    /\ player_stats[LEFT].score > 0
    /\ player_stats[RIGHT].wrong_answers = 2

\* C39: while the phase is WAITING or ROUND_FEEDBACK, first_to_answer is unset
\* exactly when both answer slots are empty, and when set it names a player
\* whose slot is filled; in WAITING at least one slot is empty, in
\* ROUND_FEEDBACK both are filled.
C39_FirstToAnswerAndSlots ==
    /\ phase \in {WAITING, ROUND_FEEDBACK} =>
        /\ IsNone(first_to_answer) <=> \A p \in PlayerSide : IsNone(player_answers[p])
        /\ ~IsNone(first_to_answer) =>
                /\ Val(first_to_answer) \in PlayerSide
                /\ ~IsNone(player_answers[Val(first_to_answer)])
    /\ phase = WAITING => \E p \in PlayerSide : IsNone(player_answers[p])
    /\ phase = ROUND_FEEDBACK => \A p \in PlayerSide : ~IsNone(player_answers[p])

\* C39 witness: in the second round only the right player has answered, and
\* first_to_answer names that player
C39_Witness ==
    /\ phase = WAITING
    /\ current_round = 2
    /\ first_to_answer = Some(RIGHT)
    /\ IsNone(player_answers[LEFT])
    /\ ~IsNone(player_answers[RIGHT])

\* C40: after every handler of the page a countdown timer is live only while
\* the phase is ROUND_FEEDBACK, at most one timer is live, and the live timer
\* is the one GameUI.countdown_timer refers to: none was overwritten without
\* being cancelled.
C40_TimerHygiene ==
    /\ live_timers <= 1
    /\ live_timers > 0 => phase = ROUND_FEEDBACK
    /\ live_timers = IF IsNone(countdown_timer) THEN 0 ELSE 1

\* C40 witness: a reset made during the countdown has cancelled the timer
C40_Witness ==
    /\ ui_event.handler = "_on_reset_game"
    /\ phase = SETUP
    /\ countdown_seconds > 0
    /\ live_timers = 0
    /\ IsNone(countdown_timer)

=============================================================================
